---- MODULE Spec2Model ----
(***************************************************************************)
(* Model of the web-mapviewer synchronisation code:                        *)
(*   - AbstractParamConfig / QueryToStoreOnlyParamConfig                   *)
(*     (src/src/router/storeSync/abstractParamConfig.class.js)             *)
(*   - search() and its shared cancel token (src/src/api/search.api.js)    *)
(***************************************************************************)
EXTENDS Integers, Sequences, FiniteSets, TLC

(***************************************************************************)
(* Bounds of the model.                                                    *)
(***************************************************************************)
\* numbers 0..MaxNum (and their decimal strings) are the numeric inputs
MaxNum == 1
\* object references 1..MaxObj are the objects a store or a query may hold
MaxObj == 1

(***************************************************************************)
(* JavaScript values.  Every value is a record with the same four fields,  *)
(* so that any two values can be compared.                                 *)
(*   t: the typeof class ("undefined", "null", "boolean", "number",        *)
(*      "string", "object")                                                *)
(*   b: the boolean, n: the number or the object reference, s: the string  *)
(*      (or the marker "NaN" / "wrapper")                                  *)
(***************************************************************************)
JsUndefined == [t |-> "undefined", b |-> FALSE, n |-> 0, s |-> ""]

JsNull == [t |-> "null", b |-> FALSE, n |-> 0, s |-> ""]

JsBool(x) == [t |-> "boolean", b |-> x, n |-> 0, s |-> ""]

JsNum(k) == [t |-> "number", b |-> FALSE, n |-> k, s |-> ""]

JsNaN == [t |-> "number", b |-> FALSE, n |-> 0, s |-> "NaN"]

JsStr(x) == [t |-> "string", b |-> FALSE, n |-> 0, s |-> x]

\* an object that exists in the heap, identified by its reference r >= 1
JsObj(r) == [t |-> "object", b |-> FALSE, n |-> r, s |-> ""]

\* the object a call Object(primitive) allocates: a new reference each call
JsWrapper == [t |-> "object", b |-> FALSE, n |-> 0, s |-> "wrapper"]

Digits == <<"0", "1", "2", "3", "4", "5", "6", "7", "8", "9">>

RECURSIVE IntToStr(_)
\* decimal representation of an integer, as String(n) prints it
IntToStr(k) ==
    IF k < 0 THEN "-" \o IntToStr(-k)
    ELSE IF k < 10 THEN Digits[k + 1]
    ELSE IntToStr(k \div 10) \o Digits[(k % 10) + 1]

NumRange == 0..MaxNum

\* the strings of the model: the empty string, the two boolean words, a word
\* that is no number, and the decimal strings of the numbers
StrVals == {"", "true", "false", "abc"} \cup {IntToStr(k) : k \in NumRange}

JsValues ==
    {JsUndefined, JsNull, JsBool(TRUE), JsBool(FALSE), JsNaN}
        \cup {JsNum(k) : k \in NumRange}
        \cup {JsStr(x) : x \in StrVals}
        \cup {JsObj(r) : r \in 1..MaxObj}

IsNaN(v) == v.t = "number" /\ v.s = "NaN"

\* a === b: NaN differs from everything, itself included; a wrapper object
\* was allocated by the call that returned it and equals no other object
StrictEquals(a, b) ==
    /\ a = b
    /\ ~IsNaN(a)
    /\ a # JsWrapper

\* the truthiness of a value (!!v)
Truthy(v) ==
    CASE v.t = "undefined" -> FALSE
      [] v.t = "null" -> FALSE
      [] v.t = "boolean" -> v.b
      [] v.t = "number" -> ~IsNaN(v) /\ v.n # 0
      [] v.t = "string" -> v.s # ""
      [] OTHER -> TRUE

\* Number(v)
NumberCtor(v) ==
    CASE v.t = "undefined" -> JsNaN
      [] v.t = "null" -> JsNum(0)
      [] v.t = "boolean" -> JsNum(IF v.b THEN 1 ELSE 0)
      [] v.t = "number" -> v
      [] v.t = "string" ->
            IF v.s = "" THEN JsNum(0)
            ELSE IF \E k \in NumRange : IntToStr(k) = v.s
                 THEN JsNum(CHOOSE k \in NumRange : IntToStr(k) = v.s)
                 ELSE JsNaN
      [] OTHER -> JsNaN

\* String(v)
StringCtor(v) ==
    CASE v.t = "undefined" -> JsStr("undefined")
      [] v.t = "null" -> JsStr("null")
      [] v.t = "boolean" -> JsStr(IF v.b THEN "true" ELSE "false")
      [] v.t = "number" -> IF IsNaN(v) THEN JsStr("NaN") ELSE JsStr(IntToStr(v.n))
      [] v.t = "string" -> v
      [] OTHER -> JsStr("[object Object]")

\* Boolean(v)
BooleanCtor(v) == JsBool(Truthy(v))

\* Object(v): an object is returned as it is, anything else is wrapped in
\* (or, for null and undefined, replaced by) a newly allocated object
ObjectCtor(v) == IF v.t = "object" THEN v ELSE JsWrapper

ValueTypes == {"Number", "String", "Boolean", "Object"}

\* this.valueType(v)
valueType(c, v) ==
    CASE c.valueType = "Number" -> NumberCtor(v)
      [] c.valueType = "String" -> StringCtor(v)
      [] c.valueType = "Boolean" -> BooleanCtor(v)
      [] OTHER -> ObjectCtor(v)


(***************************************************************************)
(* State.                                                                  *)
(***************************************************************************)
VARIABLES
    cfg,          \* the param config (immutable after construction)
    query,        \* the route query object: a map from param names to values
    storeValue,   \* the field of the store the config's extractor reads
    op,           \* the operation that ran last
    args,         \* which arguments the last operation was given
    ret,          \* the value the last operation returned
    queryBefore,  \* the query as it was when the last operation started
    storeBefore,  \* the store field as it was when the last operation started
    promise,      \* populateStoreWithQueryValue: the promise it returned
    dispatched,   \* populateStoreWithQueryValue: the promise the setter returned
    jobs,         \* promise reactions queued and not run yet
    setterCalls,  \* how often setValuesInStore was invoked
    cancelToken,  \* search.api.js: the shared cancel token source, named by
                  \* the call that made it (0: null)
    nCalls,       \* the number of valid search() calls so far
    inFlight,     \* the calls awaiting Promise.all: call |-> its requests
    settled,      \* the search() promise that settled in the last step
    saveState,    \* DrawingModule.vue: the state of the save of the drawing
    activeKmlLayer,    \* the KML layer of the drawing: its fileId (0: no
                       \* layer) and whether the session holds its adminId
    pendingSaveHandle, \* a debounced save is scheduled
    savesInProgress,   \* the save requests sent and not settled
    isNewDrawing, \* the ref of DrawingModule.vue
    features,     \* the number of features of the drawing
    closing,      \* where the component is: "setup", "loading", "open",
                  \* in closeDrawing ("awaitSaves", "awaitFinal"), "closed"
    awaited,      \* the saves the await of closeDrawing waits for
    documents,    \* the backend: the document the session started with,
                  \* the documents created and the fileIds updated since
    nSaves,       \* the number of save requests sent so far
    closeLog,     \* what closeDrawing found when it was called, and the
                  \* saves it made
    timers,       \* the timers of debounced saves that are set and neither
                  \* fired nor cleared: the time each has left
    debounceLog,  \* the time since the last edit, the debounced saves sent
                  \* since, the time since the edit when the last was sent,
                  \* and whether the last edit found a timer set
    event,        \* what the last task was, the save states it went
                  \* through and the features it started with
    requestsOf,   \* search.api.js: a layersToSearch list and the requests
                  \* search() builds for it,
    overlay,      \* map.store.js: state.overlay (show, callbacksOnClose)
    overlayLog,   \* the callbacks registered and invoked, the last mutation
    ui,           \* state.ui: width, height, mode, showMenuTray, ...
    uiLog,        \* the mutations the subscriber of the ui mode plugin has
                  \* not seen yet, the last setSize and what it dispatched
    layersState,  \* the language, layers config and topics of the store, and
                  \* layersConfigByLang of the plugin
    loads,        \* the calls of loadLayersAndTopicsConfigAndDispatchToStore
                  \* that wait for the backend
    layersLog     \* the loads started, the backend calls and their outcomes

paramVars == <<cfg, query, storeValue, op, args, ret, queryBefore, storeBefore>>

promiseVars == <<promise, dispatched, jobs, setterCalls>>

searchVars == <<cancelToken, nCalls, inFlight, settled>>

drawingVars ==
    <<saveState, activeKmlLayer, pendingSaveHandle, savesInProgress,
      isNewDrawing, features, closing, awaited, documents, nSaves, closeLog,
      timers, debounceLog, event>>

requestVars == <<requestsOf>>

overlayVars == <<overlay, overlayLog>>

uiVars == <<ui, uiLog>>

layersVars == <<layersState, loads, layersLog>>

storeVars == <<requestVars, overlayVars, uiVars, layersVars>>

vars == <<paramVars, promiseVars, searchVars, drawingVars, storeVars>>

(***************************************************************************)
(* AbstractParamConfig                                                     *)
(***************************************************************************)
ParamNames == {"p", ""}

QueryKeys == {"p", "other"}

\* constructor: the configs of the model.  A QueryToStoreOnlyParamConfig
\* always has a setter (a store dispatch) and the extractor () => null.
ParamConfigs ==
    [kind : {"Abstract"}, urlParamName : ParamNames, valueType : ValueTypes,
     keepValueInUrlWhenEmpty : BOOLEAN, setValuesInStore : BOOLEAN,
     extractValueFromStore : {"field", "none"}]
    \cup
    [kind : {"QueryToStoreOnly"}, urlParamName : ParamNames,
     valueType : ValueTypes, keepValueInUrlWhenEmpty : BOOLEAN,
     setValuesInStore : {TRUE}, extractValueFromStore : {"null"}]

\* the query objects: any subset of the keys, any value for the param
Queries ==
    {[k \in D |-> IF k = "other" THEN JsStr("abc") ELSE v] :
        D \in SUBSET QueryKeys, v \in JsValues}

\* an argument that may be missing (null / undefined)
NullArg == [isNull |-> TRUE, v |-> JsUndefined, m |-> <<>>]

QueryArg(m) == [isNull |-> FALSE, v |-> JsUndefined, m |-> m]

StoreArg(v) == [isNull |-> FALSE, v |-> v, m |-> <<>>]

\* name in query
InQuery(name, q) == name \in DOMAIN q.m

\* query[name]
QueryGet(q, name) == IF name \in DOMAIN q.m THEN q.m[name] ELSE JsUndefined

\* the Boolean branch of readValueFromQuery working on typeof, with the
\* generic constructor instead (the pitfall the code comment warns about)
booleanFromQuery_ctor(c, queryValue) == BooleanCtor(queryValue)

\* readValueFromQuery, the Boolean branch
booleanFromQuery(c, queryValue) ==
    IF ~c.keepValueInUrlWhenEmpty /\ queryValue.t = "undefined"
    THEN JsBool(FALSE)
    ELSE JsBool(\/ (queryValue.t = "string" /\ queryValue.s = "true")
                \/ (queryValue.t = "boolean" /\ queryValue.b))

\* readValueFromQuery, the branch of an absent param that is not kept when
\* empty: the first default only
emptyDefault_number(c) == JsNum(0)

\* readValueFromQuery, the branch of an absent param that is not kept when
\* empty; no return statement is reached for any other type
emptyDefault(c) ==
    IF c.valueType = "Number" THEN JsNum(0)
    ELSE IF c.valueType = "String" THEN JsStr("")
    ELSE JsUndefined

\* readValueFromQuery that enters its body for any query object
readValueFromQuery_noKeepTest(c, q) ==
    IF ~q.isNull
    THEN IF c.valueType = "Boolean"
         THEN booleanFromQuery(c, QueryGet(q, c.urlParamName))
         ELSE valueType(c, QueryGet(q, c.urlParamName))
    ELSE JsUndefined

readValueFromQuery(c, q) ==
    IF ~q.isNull
       /\ (InQuery(c.urlParamName, q) \/ ~c.keepValueInUrlWhenEmpty)
    THEN LET queryValue == QueryGet(q, c.urlParamName)
         IN  IF c.valueType = "Boolean"
             THEN booleanFromQuery(c, queryValue)
             ELSE IF ~InQuery(c.urlParamName, q) /\ ~c.keepValueInUrlWhenEmpty
                  THEN emptyDefault(c)
                  ELSE valueType(c, queryValue)
    ELSE JsUndefined

\* this.extractValueFromStore(store)
extractValueFromStore(c, s) ==
    IF c.extractValueFromStore = "null" THEN JsNull ELSE s.v

readValueFromStore(c, s) ==
    IF ~s.isNull /\ c.extractValueFromStore # "none"
    THEN valueType(c, extractValueFromStore(c, s))
    ELSE JsUndefined

valuesAreDifferentBetweenQueryAndStore(c, q, s) ==
    ~StrictEquals(readValueFromQuery(c, q), readValueFromStore(c, s))

\* delete query[name]
QueryDelete(q, name) ==
    [q EXCEPT !.m = [k \in (DOMAIN q.m) \ {name} |-> q.m[k]]]

\* query[name] = v
QuerySet(q, name, v) ==
    [q EXCEPT !.m = [k \in (DOMAIN q.m) \cup {name} |->
                        IF k = name THEN v ELSE q.m[k]]]

\* populateQueryWithStoreValue that writes the value whatever the policy
AbstractPopulateQuery_alwaysWrite(c, q, s) ==
    IF ~q.isNull /\ c.urlParamName # ""
    THEN QuerySet(q, c.urlParamName, readValueFromStore(c, s))
    ELSE q

\* AbstractParamConfig.populateQueryWithStoreValue: the query it leaves
AbstractPopulateQuery(c, q, s) ==
    IF ~q.isNull /\ c.urlParamName # ""
    THEN LET valueFromStore == readValueFromStore(c, s)
         IN  IF ~c.keepValueInUrlWhenEmpty
             THEN IF /\ InQuery(c.urlParamName, q)
                     /\ \/ (c.valueType = "Boolean" /\ ~Truthy(valueFromStore))
                        \/ (c.valueType = "String" /\ valueFromStore = JsStr(""))
                  THEN QueryDelete(q, c.urlParamName)
                  ELSE q
             ELSE QuerySet(q, c.urlParamName, valueFromStore)
    ELSE q

\* a QueryToStoreOnlyParamConfig that inherits the method of its base class
QueryToStoreOnlyPopulateQuery_inherited(c, q, s) == AbstractPopulateQuery(c, q, s)

\* QueryToStoreOnlyParamConfig.populateQueryWithStoreValue: an empty body
QueryToStoreOnlyPopulateQuery(c, q, s) == q

\* method dispatch on the class of the config
populateQueryWithStoreValue(c, q, s) ==
    IF c.kind = "QueryToStoreOnly"
    THEN QueryToStoreOnlyPopulateQuery(c, q, s)
    ELSE AbstractPopulateQuery(c, q, s)


(***************************************************************************)
(* The synchronisation of one param: the router navigates (the query       *)
(* changes), mutations change the store, and the URL manager calls the     *)
(* methods of the config, with or without a query / a store.               *)
(***************************************************************************)
NoArgs == [q |-> FALSE, s |-> FALSE, v |-> JsUndefined]

IdlePromise ==
    /\ promise = "none"
    /\ dispatched = "none"
    /\ jobs = <<>>
    /\ setterCalls = 0

\* no search() promise settled in the last step
NoneSettled ==
    [call |-> 0, status |-> "none", error |-> "", result |-> <<>>,
     reqs |-> <<>>, last |-> 0, outcome |-> ""]

\* let cancelToken = null, and no call of search() yet
IdleSearch ==
    /\ cancelToken = 0
    /\ nCalls = 0
    /\ inFlight = [b \in {} |-> <<>>]
    /\ settled = NoneSettled

\* no KML layer, nothing saved
NoKmlLayer == [fileId |-> 0, adminId |-> FALSE]

NoDocuments == [original |-> NoKmlLayer, created |-> 0, updated |-> {}]

NotClosing ==
    [called |-> FALSE, state |-> "", isNew |-> FALSE, empty |-> FALSE,
     saved |-> 0, finalSaves |-> 0, pending |-> FALSE, inProgress |-> 0,
     edited |-> FALSE, debounced |-> 0, sinceFinal |-> "none", extra |-> 0]

\* the length of the quiet period of the debounce, in ticks of the clock
QuietPeriod == 2

\* no edit yet
NoDebounce ==
    [sinceEdit |-> QuietPeriod, saves |-> 0, quiet |-> QuietPeriod,
     edited |-> FALSE, replaced |-> FALSE]

NoEvent == [kind |-> "none", path |-> <<"INITIAL">>, features |-> 0]

\* the setup of DrawingModule.vue, but for the KML layer of the store
SetupDrawing ==
    /\ saveState = "INITIAL"
    /\ pendingSaveHandle = FALSE
    /\ savesInProgress = {}
    /\ isNewDrawing = TRUE
    /\ features = 0
    /\ closing = "setup"
    /\ awaited = {}
    /\ nSaves = 0
    /\ closeLog = NotClosing
    /\ timers = {}
    /\ debounceLog = NoDebounce
    /\ event = NoEvent

\* no drawing session
IdleDrawing ==
    /\ SetupDrawing
    /\ activeKmlLayer = NoKmlLayer
    /\ documents = NoDocuments

\* no list of layers given, no request built
NoRequests == [layers |-> <<>>, built |-> FALSE, reqs |-> <<>>]

IdleRequests == requestsOf = NoRequests

\* the callbacks the model registers at most
MaxCallbacks == 3

\* the mutations of the overlay the model commits at most
MaxMutations == 6

\* map.store.js, the initial state: no overlay, no callback
NoOverlay == [show |-> FALSE, callbacksOnClose |-> <<>>]

\* no callback registered or invoked, no mutation committed
NoOverlayLog ==
    [registered |-> 0, invoked |-> [c \in 1..MaxCallbacks |-> 0],
     mutations |-> 0, last |-> "none", called |-> {}]

IdleOverlay ==
    /\ overlay = NoOverlay
    /\ overlayLog = NoOverlayLog

\* one param config, an empty query, a store field not set yet
IdleSync ==
    /\ cfg = [kind |-> "Abstract", urlParamName |-> "p", valueType |-> "String",
              keepValueInUrlWhenEmpty |-> TRUE, setValuesInStore |-> TRUE,
              extractValueFromStore |-> "field"]
    /\ query = [k \in {} |-> JsUndefined]
    /\ storeValue = JsNull
    /\ op = "init"
    /\ args = NoArgs
    /\ ret = JsUndefined
    /\ queryBefore = query
    /\ storeBefore = storeValue

\* `parseInt(bootstrapVariable.sm.replace('px', ''))`: the sm breakpoint of
\* the bootstrap theme, 576px
widthThresholdToAlwaysShowMenu == 576

heightMinimumThresholdToAlwaysShowMenu == 500

\* a small screen in button mode, no menu tray, no drawing overlay
NoUi ==
    [width |-> widthThresholdToAlwaysShowMenu - 1,
     height |-> heightMinimumThresholdToAlwaysShowMenu,
     mode |-> "MENU_OPENED_THROUGH_BUTTON",
     showMenuTray |-> FALSE, showDrawingOverlay |-> FALSE]

\* no mutation the subscriber has not seen, no setSize yet
NoUiLog ==
    [pending |-> <<>>, last |-> "none",
     modeBefore |-> "MENU_OPENED_THROUGH_BUTTON", dispatched |-> 0]

IdleUi ==
    /\ ui = NoUi
    /\ uiLog = NoUiLog

\* the languages of the model
Langs == {"de", "fr"}

\* the calls of loadLayersAndTopicsConfigAndDispatchToStore the model makes
\* at most
MaxLoads == 3

\* a store without layers config and topics, an empty layersConfigByLang
NoLayers ==
    [lang |-> "de", cache |-> [l \in Langs |-> FALSE], config |-> "none",
     topics |-> "none", current |-> FALSE, tree |-> "none"]

\* nothing loaded, nothing asked
NoLayersLog ==
    [started |-> 0, calls |-> [l \in Langs |-> 0],
     loaded |-> [l \in Langs |-> 0], hits |-> 0, late |-> 0, failed |-> FALSE]

IdleLayers ==
    /\ layersState = NoLayers
    /\ loads = {}
    /\ layersLog = NoLayersLog

\* the store modules and plugins at rest
IdleStore ==
    /\ IdleRequests
    /\ IdleOverlay
    /\ IdleUi
    /\ IdleLayers

\* the state after construction, but for the config: an empty query, a
\* store field not set yet, no promise, no search, no drawing
InitOthers ==
    /\ query = [k \in {} |-> JsUndefined]
    /\ storeValue = JsNull
    /\ op = "init"
    /\ args = NoArgs
    /\ ret = JsUndefined
    /\ queryBefore = query
    /\ storeBefore = storeValue
    /\ IdlePromise
    /\ IdleSearch
    /\ IdleDrawing
    /\ IdleStore

\* any config may be the one synchronised; the methods that read and write
\* the query never look at the setter, so the configs with one stand for all
InitSync ==
    /\ cfg \in {c \in ParamConfigs : c.setValuesInStore}
    /\ InitOthers

\* the arguments a method is called with: the query (or nothing), the store
\* (or nothing)
QueryPassed(a) == IF a.q THEN QueryArg(query) ELSE NullArg

StorePassed(a) == IF a.s THEN StoreArg(storeValue) ELSE NullArg

\* a navigation replaces the query
Navigate ==
    /\ \E m \in Queries : query' = m
    /\ op' = "navigate"
    /\ args' = NoArgs
    /\ ret' = JsUndefined
    /\ queryBefore' = query'
    /\ storeBefore' = storeValue
    /\ UNCHANGED <<cfg, storeValue, promiseVars, searchVars, drawingVars, storeVars>>

\* a store mutation changes the field the param mirrors
Mutate ==
    /\ \E v \in JsValues : storeValue' = v
    /\ op' = "mutate"
    /\ args' = NoArgs
    /\ ret' = JsUndefined
    /\ queryBefore' = query
    /\ storeBefore' = storeValue'
    /\ UNCHANGED <<cfg, query, promiseVars, searchVars, drawingVars, storeVars>>

ReadValueFromQuery ==
    /\ \E qp \in BOOLEAN : args' = [q |-> qp, s |-> FALSE, v |-> JsUndefined]
    /\ ret' = readValueFromQuery(cfg, QueryPassed(args'))
    /\ op' = "readValueFromQuery"
    /\ queryBefore' = query
    /\ storeBefore' = storeValue
    /\ UNCHANGED <<cfg, query, storeValue, promiseVars, searchVars, drawingVars, storeVars>>

ReadValueFromStore ==
    /\ \E sp \in BOOLEAN : args' = [q |-> FALSE, s |-> sp, v |-> JsUndefined]
    /\ ret' = readValueFromStore(cfg, StorePassed(args'))
    /\ op' = "readValueFromStore"
    /\ queryBefore' = query
    /\ storeBefore' = storeValue
    /\ UNCHANGED <<cfg, query, storeValue, promiseVars, searchVars, drawingVars, storeVars>>

ValuesAreDifferentBetweenQueryAndStore ==
    /\ \E qp, sp \in BOOLEAN : args' = [q |-> qp, s |-> sp, v |-> JsUndefined]
    /\ ret' = JsBool(valuesAreDifferentBetweenQueryAndStore(
                        cfg, QueryPassed(args'), StorePassed(args')))
    /\ op' = "valuesAreDifferentBetweenQueryAndStore"
    /\ queryBefore' = query
    /\ storeBefore' = storeValue
    /\ UNCHANGED <<cfg, query, storeValue, promiseVars, searchVars, drawingVars, storeVars>>

\* the method mutates the query object it is given (if it is given one)
PopulateQueryWithStoreValue ==
    /\ \E qp, sp \in BOOLEAN : args' = [q |-> qp, s |-> sp, v |-> JsUndefined]
    /\ query' = IF args'.q
                THEN populateQueryWithStoreValue(
                         cfg, QueryPassed(args'), StorePassed(args')).m
                ELSE query
    /\ ret' = JsUndefined
    /\ op' = "populateQueryWithStoreValue"
    /\ queryBefore' = query
    /\ storeBefore' = storeValue
    /\ UNCHANGED <<cfg, storeValue, promiseVars, searchVars, drawingVars, storeVars>>

NextSync ==
    \/ Navigate
    \/ Mutate
    \/ ReadValueFromQuery
    \/ ReadValueFromStore
    \/ ValuesAreDifferentBetweenQueryAndStore
    \/ PopulateQueryWithStoreValue

SpecSync == InitSync /\ [][NextSync]_vars


(***************************************************************************)
(* populateStoreWithQueryValue and the promises it works with.             *)
(***************************************************************************)
\* what the setter given to the constructor does when it is invoked: it
\* returns a promise (a store dispatch), returns nothing, or throws.  The
\* setter of a QueryToStoreOnlyParamConfig is a store dispatch.
SetterBehaviours(c) ==
    IF c.kind = "QueryToStoreOnly" THEN {"promise"}
    ELSE {"promise", "void", "throws"}

RejectionMessage == JsStr("Query, store or setter functions is not set")

\* the test of the promise executor, without the test of the setter
populateStorePrecondition_noSetterTest(c, a) == Truthy(a.v) /\ a.s

\* query && store && this.setValuesInStore
populateStorePrecondition(c, a) ==
    Truthy(a.v) /\ a.s /\ c.setValuesInStore

\* promiseSetValuesInStore.then(() => resolve()): one handler, for
\* fulfilment; nothing reacts to a rejection
ReactionsOnRejection == <<>>

\* promiseSetValuesInStore.then(() => resolve())
ReactionsOnFulfilment == <<"resolve">>

\* the call: the executor of the returned promise runs synchronously.
\* a.v is the query value, a.s tells whether a store was passed.
PopulateStoreWithQueryValue ==
    /\ dispatched # "pending"
    /\ jobs = <<>>
    /\ \E v \in JsValues, sp \in BOOLEAN :
          args' = [q |-> FALSE, s |-> sp, v |-> v]
    /\ op' = "populateStoreWithQueryValue"
    /\ queryBefore' = query
    /\ storeBefore' = storeValue
    /\ jobs' = <<>>
    /\ IF populateStorePrecondition(cfg, args')
       THEN /\ setterCalls' = 1
            /\ \E behaviour \in SetterBehaviours(cfg) :
                  CASE behaviour = "promise" ->
                          /\ dispatched' = "pending"
                          /\ promise' = "pending"
                          /\ ret' = JsUndefined
                          /\ storeValue' = storeValue
                    [] behaviour = "void" ->
                          /\ dispatched' = "none"
                          /\ promise' = "fulfilled"
                          /\ ret' = JsUndefined
                          /\ storeValue' = args'.v
                    [] OTHER ->
                          /\ dispatched' = "none"
                          /\ promise' = "rejected"
                          /\ ret' = JsStr("thrown by the setter")
                          /\ storeValue' = storeValue
       ELSE /\ setterCalls' = 0
            /\ dispatched' = "none"
            /\ promise' = "rejected"
            /\ ret' = RejectionMessage
            /\ storeValue' = storeValue
    /\ UNCHANGED <<cfg, query, searchVars, drawingVars, storeVars>>

\* the dispatch finishes: the store holds the value, the reactions to the
\* fulfilment are queued
DispatchFulfilled ==
    /\ dispatched = "pending"
    /\ dispatched' = "fulfilled"
    /\ storeValue' = args.v
    /\ jobs' = jobs \o ReactionsOnFulfilment
    /\ UNCHANGED <<cfg, query, op, args, ret, queryBefore, storeBefore,
                   promise, setterCalls, searchVars, drawingVars, storeVars>>

\* the dispatch fails: the reactions to the rejection are queued
DispatchRejected ==
    /\ dispatched = "pending"
    /\ dispatched' = "rejected"
    /\ jobs' = jobs \o ReactionsOnRejection
    /\ UNCHANGED <<cfg, query, storeValue, op, args, ret, queryBefore,
                   storeBefore, promise, setterCalls, searchVars, drawingVars, storeVars>>

\* the event loop runs the next queued reaction
RunReaction ==
    /\ jobs # <<>>
    /\ promise' = IF promise # "pending" THEN promise
                  ELSE IF Head(jobs) = "resolve" THEN "fulfilled"
                  ELSE "rejected"
    /\ jobs' = Tail(jobs)
    /\ UNCHANGED <<cfg, query, storeValue, op, args, ret, queryBefore,
                   storeBefore, dispatched, setterCalls, searchVars, drawingVars, storeVars>>

\* another mutation of the store, at any time
MutateDuringDispatch ==
    /\ \E v \in JsValues : storeValue' = v
    /\ op' = "mutate"
    /\ storeBefore' = storeValue'
    /\ UNCHANGED <<cfg, query, args, ret, queryBefore, promiseVars, searchVars, drawingVars, storeVars>>

NextDispatch ==
    \/ PopulateStoreWithQueryValue
    \/ DispatchFulfilled
    \/ DispatchRejected
    \/ RunReaction
    \/ MutateDuringDispatch

\* any config, with or without setter, may be the one synchronised
InitDispatch ==
    /\ cfg \in ParamConfigs
    /\ InitOthers

SpecDispatch == InitDispatch /\ [][NextDispatch]_vars


(***************************************************************************)
(* Properties of the param configs.                                        *)
(***************************************************************************)
\* the last operation was the given method, called with a query object
CalledWithQuery(method) == op = method /\ args.q

\* the param is a key of the query the last operation was given
ParamWasInQuery == cfg.urlParamName \in DOMAIN queryBefore

RawValue == queryBefore[cfg.urlParamName]

\* C1: for a Boolean config and a query that contains the param,
\* readValueFromQuery returns true if and only if the raw value is the
\* string "true" or the boolean true, and false for every other value
C1_BooleanReadFromQuery ==
    (/\ CalledWithQuery("readValueFromQuery")
     /\ cfg.valueType = "Boolean"
     /\ ParamWasInQuery)
        => ret = JsBool(RawValue = JsStr("true") \/ RawValue = JsBool(TRUE))

C1_Witness ==
    /\ CalledWithQuery("readValueFromQuery")
    /\ cfg.valueType = "Boolean"
    /\ ParamWasInQuery
    /\ RawValue = JsStr("false")
    /\ ret = JsBool(FALSE)

\* the store value is a value of the type of the config
StoreValueHasType ==
    CASE cfg.valueType = "Number" -> storeValue.t = "number" /\ ~IsNaN(storeValue)
      [] cfg.valueType = "String" -> storeValue.t = "string"
      [] cfg.valueType = "Boolean" -> storeValue.t = "boolean"
      [] OTHER -> storeValue.t = "object"

\* the last operation was populateQueryWithStoreValue of a two-way config
\* with a name and an extractor, called with a query and a store
PopulatedQuery ==
    /\ op = "populateQueryWithStoreValue"
    /\ args.q
    /\ args.s
    /\ cfg.kind = "Abstract"
    /\ cfg.urlParamName # ""
    /\ cfg.extractValueFromStore = "field"

CoercedStoreValue == readValueFromStore(cfg, StoreArg(storeValue))

\* the store value is the empty value of a type that has one
StoreValueIsEmpty ==
    \/ (cfg.valueType = "Boolean" /\ CoercedStoreValue = JsBool(FALSE))
    \/ (cfg.valueType = "String" /\ CoercedStoreValue = JsStr(""))

\* C2: round trip: after populateQueryWithStoreValue(query, store), for a
\* store value of the type of the config, readValueFromQuery(query) equals
\* readValueFromStore(store), so the two are not reported as different
C2_RoundTrip ==
    (PopulatedQuery /\ StoreValueHasType)
        => ~valuesAreDifferentBetweenQueryAndStore(
                cfg, QueryArg(query), StoreArg(storeValue))

\* C3: populateQueryWithStoreValue writes the coerced store value into
\* query[urlParamName] unless the value is not kept when empty and the
\* store value is empty
C3_WritesStoreValue ==
    (PopulatedQuery /\ ~(~cfg.keepValueInUrlWhenEmpty /\ StoreValueIsEmpty))
        => /\ cfg.urlParamName \in DOMAIN query
           /\ query[cfg.urlParamName] = CoercedStoreValue

\* C4: when the value is not kept when empty and the store value is the
\* empty value of the type, the param is not a key of the query afterwards
\* and every other key is as it was
C4_EmptyValueRemoved ==
    (PopulatedQuery /\ ~cfg.keepValueInUrlWhenEmpty /\ StoreValueIsEmpty)
        => /\ cfg.urlParamName \notin DOMAIN query
           /\ \A k \in QueryKeys \ {cfg.urlParamName} :
                 /\ k \in DOMAIN query <=> k \in DOMAIN queryBefore
                 /\ k \in DOMAIN query => query[k] = queryBefore[k]

C4_Witness ==
    /\ PopulatedQuery
    /\ ~cfg.keepValueInUrlWhenEmpty
    /\ StoreValueIsEmpty
    /\ ParamWasInQuery
    /\ cfg.urlParamName \notin DOMAIN query
    /\ "other" \in DOMAIN query

\* the last operation read a query object without the param, for a config
\* that does not keep an empty value
ReadAbsentNotKept ==
    /\ CalledWithQuery("readValueFromQuery")
    /\ ~cfg.keepValueInUrlWhenEmpty
    /\ ~ParamWasInQuery

\* C5 as stated: for every config that does not keep an empty value and a
\* query without the param, readValueFromQuery never returns undefined
C5_NeverUndefined == ReadAbsentNotKept => ret # JsUndefined

\* C5, amended: for a config of type String, Number or Boolean that does not
\* keep an empty value and a query without the param, readValueFromQuery
\* returns "" / 0 / false; for a config of type Object it returns undefined
C5_EmptyDefault ==
    ReadAbsentNotKept
        => ret = (CASE cfg.valueType = "String" -> JsStr("")
                    [] cfg.valueType = "Number" -> JsNum(0)
                    [] cfg.valueType = "Boolean" -> JsBool(FALSE)
                    [] OTHER -> JsUndefined)

C5_Witness ==
    /\ ReadAbsentNotKept
    /\ cfg.valueType = "String"
    /\ ret = JsStr("")

\* C6: for a config that keeps an empty value, readValueFromQuery returns
\* undefined for a query without the param, whatever the type; when the
\* param is present and the type is Number or String it returns
\* Number(raw value) or String(raw value)
C6_KeptParam ==
    (CalledWithQuery("readValueFromQuery") /\ cfg.keepValueInUrlWhenEmpty)
        => /\ ~ParamWasInQuery => ret = JsUndefined
           /\ (ParamWasInQuery /\ cfg.valueType = "Number")
                 => ret = NumberCtor(RawValue)
           /\ (ParamWasInQuery /\ cfg.valueType = "String")
                 => ret = StringCtor(RawValue)

C6_Witness ==
    /\ CalledWithQuery("readValueFromQuery")
    /\ cfg.keepValueInUrlWhenEmpty
    /\ cfg.valueType = "Boolean"
    /\ cfg.urlParamName # ""
    /\ ~ParamWasInQuery
    /\ "other" \in DOMAIN queryBefore
    /\ ret = JsUndefined

C8_SettlesWithDispatch ==
    (promise = "pending" /\ dispatched \in {"fulfilled", "rejected"})
        => jobs # <<>>

\* C9: populateQueryWithStoreValue of a QueryToStoreOnlyParamConfig leaves
\* the query as it was, for every query and every store value
C9_QueryToStoreOnlyLeavesQuery ==
    (op = "populateQueryWithStoreValue" /\ cfg.kind = "QueryToStoreOnly")
        => query = queryBefore

C9_Witness ==
    /\ op = "populateQueryWithStoreValue"
    /\ cfg.kind = "QueryToStoreOnly"
    /\ args.q
    /\ args.s
    /\ cfg.keepValueInUrlWhenEmpty
    /\ cfg.urlParamName # ""
    /\ ~ParamWasInQuery
    /\ storeValue # JsNull


(***************************************************************************)
(* search.api.js: search() and the shared cancel token.                    *)
(*                                                                         *)
(* search() is called from event handlers and a backend response arrives   *)
(* as an event: each is one task of the event loop, and the promise        *)
(* reactions it triggers (the catch blocks, Promise.all, the rest of       *)
(* search() after its await) run before the next task.  An action is one   *)
(* task with its reactions.                                                *)
(***************************************************************************)
\* the number of valid search() calls of a run
MaxSearches == 3
\* the longest layersToSearch list
MaxLayers == 1

\* layersToSearch: a list of layers, each with its searchable flag
LayerLists ==
    UNION {[1..n -> [searchable : BOOLEAN]] : n \in 0..MaxLayers}

\* the configs search() is called with: an output projection that is a
\* CoordinateSystem or not, a lang and a query string of 2 or fewer
\* characters, and the layers (the default, [], with the configs that
\* search() refuses before it reads the layers)
SearchConfigs ==
    LET all == [outputProjection : {"LV95", "none"}, lang : {"en", "e", ""},
                queryString : {"te", "t", ""}, layersToSearch : LayerLists]
    IN  {c \in all : c.layersToSearch = <<>>
                        \/ (c.outputProjection = "LV95" /\ c.lang = "en"
                                /\ c.queryString = "te")}

\* the three tests at the head of search(): the error thrown, "" if none.
\* `throw SearchError(msg)` calls the class without `new`, which throws a
\* TypeError instead.
validationError(config) ==
    IF config.outputProjection # "LV95" THEN "SearchError"
    ELSE IF config.lang = "" \/ Len(config.lang) # 2 THEN "TypeError"
    ELSE IF config.queryString = "" \/ Len(config.queryString) < 2 THEN "TypeError"
    ELSE ""

RECURSIVE searchableLayers_all(_, _)
\* every layer counts as searchable
searchableLayers_all(layers, i) ==
    IF i > Len(layers) THEN <<>>
    ELSE <<i>> \o searchableLayers_all(layers, i + 1)

RECURSIVE searchableLayers(_, _)
\* the indexes of the layers of layersToSearch that are searchable, in
\* order, from index i on
searchableLayers(layers, i) ==
    IF i > Len(layers) THEN <<>>
    ELSE (IF layers[i].searchable THEN <<i>> ELSE <<>>)
            \o searchableLayers(layers, i + 1)

Request(type, layer) == [type |-> type, layer |-> layer, st |-> "pending"]

\* allRequests: the layers request, the locations request, then one
\* feature search per searchable layer
allRequests(config) ==
    LET searchable == searchableLayers(config.layersToSearch, 1)
    IN  <<Request("layers", 0), Request("locations", 0)>>
            \o [k \in 1..Len(searchable) |-> Request("featuresearch", searchable[k])]

\* the try block of searchLayers, searchLocation and searchLayerFeatures
\* when the request of the given type ends with `outcome`: the await throws
\* when the request failed or was cancelled; a payload without results
\* gives undefined, which searchLayers maps with `?.` and the two others
\* with `.`, which throws
tryBlock(type, outcome) ==
    IF outcome = "ok" THEN "results"
    ELSE IF outcome = "unparsable" /\ type = "layers" THEN "undefined"
    ELSE "throws"

\* the catch block without its `return []`: the error goes on to the caller
catchBlock_rethrow(type, outcome) ==
    IF tryBlock(type, outcome) = "results" THEN "results"
    ELSE IF tryBlock(type, outcome) = "throws" THEN "rejected"
    ELSE "empty"

\* what the promise of one of the three functions settles with: the parsed
\* results, [] for undefined (`?? []`), and [] from the catch block
catchBlock(type, outcome) ==
    IF tryBlock(type, outcome) = "results" THEN "results" ELSE "empty"

\* the request i of reqs ends with `outcome`: its promise settles
settle(reqs, i, outcome) ==
    [reqs EXCEPT ![i].st = catchBlock(reqs[i].type, outcome)]

\* Promise.any in the place of Promise.all: fulfilled with the first
\* promise that is
promiseAll_any(reqs) ==
    IF \E i \in 1..Len(reqs) : reqs[i].st \in {"results", "empty"}
    THEN "fulfilled"
    ELSE "pending"

\* Promise.all(allRequests): rejected as soon as one promise is, fulfilled
\* when all are
promiseAll(reqs) ==
    IF \E i \in 1..Len(reqs) : reqs[i].st = "rejected"
    THEN "rejected"
    ELSE IF \A i \in 1..Len(reqs) : reqs[i].st # "pending"
    THEN "fulfilled"
    ELSE "pending"

\* the results a fulfilled promise of call b holds
Items(b, req) ==
    IF req.st = "results"
    THEN <<[call |-> b, type |-> req.type, layer |-> req.layer]>>
    ELSE <<>>

RECURSIVE flat_reversed(_, _, _)
\* the results of the requests from the last to the first
flat_reversed(b, reqs, i) ==
    IF i > Len(reqs) THEN <<>>
    ELSE flat_reversed(b, reqs, i + 1) \o Items(b, reqs[i])

RECURSIVE flat(_, _, _)
\* allResults.flat(): the results of the requests of call b, in the order of
\* allRequests
flat(b, reqs, i) ==
    IF i > Len(reqs) THEN <<>>
    ELSE Items(b, reqs[i]) \o flat(b, reqs, i + 1)

\* the promise of call b resolves with the results of its requests; `last`
\* is the request that settled last and `outcome` how it ended
Resolved(b, reqs, last, outcome) ==
    [call |-> b, status |-> "resolved", error |-> "", result |-> flat(b, reqs, 1),
     reqs |-> reqs, last |-> last, outcome |-> outcome]

Rejected(b, error) ==
    [call |-> b, status |-> "rejected", error |-> error, result |-> <<>>,
     reqs |-> <<>>, last |-> 0, outcome |-> ""]

RECURSIVE cancelRequests(_, _)
\* cancelToken.cancel(...): the pending requests made with the token, from
\* the i-th on, are aborted and reject; the catch block of each gives []
cancelRequests(reqs, i) ==
    IF i > Len(reqs) THEN reqs
    ELSE cancelRequests(IF reqs[i].st = "pending"
                        THEN settle(reqs, i, "cancelled") ELSE reqs, i + 1)

\* the calls in flight but b
Without(calls, b) == [c \in (DOMAIN calls) \ {b} |-> calls[c]]

\* cancelToken = null after `await Promise.all(allRequests)`, in call b,
\* when the shared variable holds `token`
tokenAfterBatch(b, token) == 0

\* search() of call b after its await, when the requests are reqs: the
\* promise it returned settles as Promise.all did
afterAwait(b, reqs, last, outcome) ==
    IF promiseAll(reqs) = "fulfilled" THEN Resolved(b, reqs, last, outcome)
    ELSE IF promiseAll(reqs) = "rejected" THEN Rejected(b, "Error")
    ELSE NoneSettled

\* the refused call drops the token
tokenAfterRefusal_dropped(token) == 0

\* the shared variable after a search() that throws in one of its three
\* tests: the throw comes before the variable is read or written
tokenAfterRefusal(token) == token

\* a call of search(config).  An invalid config rejects the returned
\* promise.  A valid one cancels the source the shared variable holds, puts
\* a new source there and issues its requests; then the reactions run: the
\* requests of the cancelled source reject, and the call that made them
\* goes on after its await, clears the shared variable and resolves.
Search ==
    /\ \E config \in SearchConfigs :
          LET error == validationError(config)
              b == nCalls + 1
              previous == cancelToken
          IN  IF error # ""
              THEN /\ settled' = Rejected(0, error)
                   /\ cancelToken' = tokenAfterRefusal(cancelToken)
                   /\ UNCHANGED <<nCalls, inFlight>>
              ELSE /\ nCalls < MaxSearches
                   /\ nCalls' = b
                   /\ IF previous # 0 /\ previous \in DOMAIN inFlight
                      THEN LET reqs == cancelRequests(inFlight[previous], 1)
                           IN  /\ settled' = afterAwait(previous, reqs, 0, "cancelled")
                               /\ cancelToken' =
                                     IF promiseAll(reqs) = "fulfilled"
                                     THEN tokenAfterBatch(previous, b)
                                     ELSE b
                      ELSE /\ settled' = NoneSettled
                           /\ cancelToken' = b
                   /\ inFlight' =
                         [c \in ((DOMAIN inFlight) \ {previous}) \cup {b} |->
                             IF c = b THEN allRequests(config) ELSE inFlight[c]]
    /\ UNCHANGED <<paramVars, promiseVars, drawingVars, storeVars>>

\* the response to a pending request arrives (with results, or with a
\* payload that has none), or the request fails; with the last one
\* Promise.all is fulfilled and search() goes on after its await: it clears
\* the shared variable and resolves
ResponseArrives ==
    /\ \E b \in DOMAIN inFlight :
          \E i \in 1..Len(inFlight[b]) :
             /\ inFlight[b][i].st = "pending"
             /\ \E outcome \in {"ok", "unparsable", "failed"} :
                   LET reqs == settle(inFlight[b], i, outcome)
                       all == promiseAll(reqs)
                   IN  /\ settled' = afterAwait(b, reqs, i, outcome)
                       /\ inFlight' = IF all = "pending"
                                      THEN [inFlight EXCEPT ![b] = reqs]
                                      ELSE Without(inFlight, b)
                       /\ cancelToken' = IF all = "fulfilled"
                                         THEN tokenAfterBatch(b, cancelToken)
                                         ELSE cancelToken
    /\ UNCHANGED <<nCalls, paramVars, promiseVars, drawingVars, storeVars>>

NextSearch ==
    \/ Search
    \/ ResponseArrives

\* the search does not depend on the param config: a config with the
\* defaults of the constructor stands in
InitSearch ==
    /\ cfg = [kind |-> "Abstract", urlParamName |-> "p", valueType |-> "String",
              keepValueInUrlWhenEmpty |-> TRUE, setValuesInStore |-> TRUE,
              extractValueFromStore |-> "field"]
    /\ InitOthers

SpecSearch == InitSearch /\ [][NextSearch]_vars

\* a batch is live: it is in flight with a pending request (the requests of
\* a cancelled source are not pending any more)
Live(b) ==
    /\ b \in DOMAIN inFlight
    /\ \E i \in 1..Len(inFlight[b]) : inFlight[b][i].st = "pending"

\* C10: at most one search batch is live at any time: every valid search()
\* call cancels the batch that is still pending when it starts
C10_AtMostOneLiveBatch ==
    Cardinality({b \in 1..nCalls : Live(b)}) <= 1


\* C11: when a search is issued while the requests of an earlier one are
\* pending, no result of the earlier one is in an aggregate that resolves
\* afterwards, and an aggregate holds results of its own requests only
C11_SupersededDiscarded ==
    settled.status = "resolved" =>
        /\ (settled.call < nCalls => settled.result = <<>>)
        /\ \A k \in 1..Len(settled.result) :
              settled.result[k].call = settled.call

\* C12: a search() with an invalid output projection, lang or query string
\* fails with a SearchError (call 0: no batch of requests was issued)
C12_InvalidInputSearchError ==
    (settled.status = "rejected" /\ settled.call = 0)
        => settled.error = "SearchError"

\* the number of items of an aggregate that come from the request r
ItemsOf(result, r) ==
    Cardinality({k \in 1..Len(result) :
                    result[k].type = r.type /\ result[k].layer = r.layer})

\* C13: a valid search() never rejects; it resolves with the results of
\* each request that succeeded and nothing for each that failed, was
\* cancelled or had a payload without results
C13_PartialFailureContained ==
    /\ (settled.status = "rejected" => settled.call = 0)
    /\ settled.status = "resolved" =>
          /\ \A i \in 1..Len(settled.reqs) :
                /\ settled.reqs[i].st \in {"results", "empty"}
                /\ ItemsOf(settled.result, settled.reqs[i]) =
                      IF settled.reqs[i].st = "results" THEN 1 ELSE 0
          /\ settled.last # 0 =>
                ItemsOf(settled.result, settled.reqs[settled.last]) =
                    IF settled.outcome = "ok" THEN 1 ELSE 0
          /\ Len(settled.result) =
                Cardinality({i \in 1..Len(settled.reqs) :
                                settled.reqs[i].st = "results"})

C13_Witness ==
    /\ settled.status = "resolved"
    /\ Len(settled.reqs) = 2
    /\ settled.last = 2
    /\ settled.outcome = "failed"
    /\ settled.result =
          <<[call |-> settled.call, type |-> "layers", layer |-> 0]>>

\* the place of a result in the concatenation: the layers, the locations,
\* then the features of each layer in the order of layersToSearch
CategoryRank(item) ==
    IF item.type = "layers" THEN 0
    ELSE IF item.type = "locations" THEN 1
    ELSE 1 + item.layer

C15_ResolvesWhenAllSettled ==
    /\ settled.status = "resolved" =>
          \A i \in 1..Len(settled.reqs) : settled.reqs[i].st # "pending"
    /\ \A b \in DOMAIN inFlight :
          \E i \in 1..Len(inFlight[b]) : inFlight[b][i].st = "pending"

C15_Witness ==
    /\ settled.status = "resolved"
    /\ settled.last = 2
    /\ settled.outcome = "unparsable"
    /\ Len(settled.reqs) = 3
    /\ settled.reqs[1].st = "empty"
    /\ settled.reqs[3].st = "results"


(***************************************************************************)
(* DrawingModule.vue: the drawing session, its saves and closeDrawing.     *)
(*                                                                         *)
(* The component mounts, the user edits the drawing, debounced saves are   *)
(* sent when their timer fires, the backend answers, and closeDrawing runs *)
(* from the click on the close button to the dispatch of                   *)
(* toggleDrawingOverlay, with an await on the saves in progress and one on *)
(* the final save.  Each action is one task of the event loop together     *)
(* with the promise reactions it triggers.  The composable that saves      *)
(* (useKmlDataManagement) follows the save state machine, the debounce     *)
(* contract and the ownership rules of the specification.                  *)
(***************************************************************************)
\* the number of debounced saves of a session
MaxSaves == 2
\* the most features a drawing has
MaxFeatures == 1

DrawingState ==
    {"INITIAL", "LOADED", "LOAD_ERROR", "MODIFIED_UNSAVED", "SAVING", "SAVED",
     "SAVE_ERROR"}

\* the document the session starts with, if any
OriginalFileId == 1

\* the KML layer the store holds when the component is set up: none, a
\* drawing of this user (with its adminId), or a drawing read from a shared
\* link (without)
InitialKmlLayers ==
    {NoKmlLayer,
     [fileId |-> OriginalFileId, adminId |-> TRUE],
     [fileId |-> OriginalFileId, adminId |-> FALSE]}

\* hasKml, online
hasKml == activeKmlLayer.fileId # 0

\* isDrawingEmpty
isDrawingEmpty == features = 0

\* LOADED counts as modified
isDrawingModified_loaded(state) == state # "INITIAL"

\* SAVE_ERROR does not count as modified
isDrawingModified_saveError(state) ==
    state \in {"MODIFIED_UNSAVED", "SAVING", "SAVED"}

\* only MODIFIED_UNSAVED counts as modified
isDrawingModified_unsaved(state) == state = "MODIFIED_UNSAVED"

\* LOAD_ERROR counts as modified
isDrawingModified_loadError(state) == state \notin {"INITIAL", "LOADED"}

\* isDrawingModified, for a save state
isDrawingModified(state) == state \notin {"INITIAL", "LOADED", "LOAD_ERROR"}

\* the test of closeDrawing before its final save
saveOnClose(state, isNew, empty) ==
    isDrawingModified(state) /\ (~isNew \/ ~empty)

\* what a task is remembered by: its kind, the save states it went through
\* after the one it started in, and the features it started with
Event(kind, states) ==
    [kind |-> kind, path |-> <<saveState>> \o states, features |-> features]

\* onMounted: the drawing is new unless the store holds a KML layer, which
\* is then loaded into the drawing
OnMounted ==
    /\ closing = "setup"
    /\ isNewDrawing' = ~hasKml
    /\ closing' = IF hasKml THEN "loading" ELSE "open"
    /\ event' = Event("mount", <<>>)
    /\ UNCHANGED <<saveState, activeKmlLayer, pendingSaveHandle, savesInProgress,
                   features, awaited, documents, nSaves, closeLog, timers,
                   debounceLog>>
    /\ UNCHANGED <<paramVars, promiseVars, searchVars, storeVars>>

\* addKmlToDrawing ends: the document was fetched (LOADED, with its
\* features) or it was not (LOAD_ERROR, the drawing stays empty)
KmlLoaded ==
    /\ closing = "loading"
    /\ closing' = "open"
    /\ \/ /\ saveState' = "LOADED"
          /\ features' \in 0..MaxFeatures
       \/ /\ saveState' = "LOAD_ERROR"
          /\ features' = 0
    /\ event' = Event("loaded", <<saveState'>>)
    /\ UNCHANGED <<activeKmlLayer, pendingSaveHandle, savesInProgress,
                   isNewDrawing, awaited, documents, nSaves, closeLog, timers,
                   debounceLog>>
    /\ UNCHANGED <<paramVars, promiseVars, searchVars, storeVars>>

\* the user can edit: the drawing is open, closeDrawing included as long as
\* it awaits
Editable == closing \in {"open", "awaitSaves", "awaitFinal"}

\* closeDrawing sees an edit: after its call, and after its final save
edited(log) ==
    IF log.called
    THEN [log EXCEPT !.edited = TRUE,
                     !.sinceFinal = IF @ = "quiet" THEN "edited" ELSE @]
    ELSE log

\* clearPendingSaveDrawing(), for the timers that are set: the scheduled
\* save is cancelled, none is run
clearPendingSaveDrawing(ts) == {}

\* the prior timer is left running
debounceSaveDrawing_keepsTimer ==
    /\ saveState' = "MODIFIED_UNSAVED"
    /\ pendingSaveHandle' = TRUE
    /\ timers' = timers \cup {QuietPeriod}
    /\ debounceLog' = [debounceLog EXCEPT !.sinceEdit = 0, !.saves = 0,
                                          !.edited = TRUE,
                                          !.replaced = (timers # {})]
    /\ closeLog' = edited(closeLog)
    /\ event' = Event("edit", <<"MODIFIED_UNSAVED">>)

\* debounceSaveDrawing() after an edit: the drawing is modified and the save
\* is scheduled anew, a quiet period from now
debounceSaveDrawing ==
    /\ saveState' = "MODIFIED_UNSAVED"
    /\ pendingSaveHandle' = TRUE
    /\ timers' = clearPendingSaveDrawing(timers) \cup {QuietPeriod}
    /\ debounceLog' = [debounceLog EXCEPT !.sinceEdit = 0, !.saves = 0,
                                          !.edited = TRUE,
                                          !.replaced = (timers # {})]
    /\ closeLog' = edited(closeLog)
    /\ event' = Event("edit", <<"MODIFIED_UNSAVED">>)

\* a feature is drawn
AddFeature ==
    /\ Editable
    /\ features < MaxFeatures
    /\ features' = features + 1
    /\ debounceSaveDrawing
    /\ UNCHANGED <<activeKmlLayer, savesInProgress, isNewDrawing, closing,
                   awaited, documents, nSaves>>
    /\ UNCHANGED <<paramVars, promiseVars, searchVars, storeVars>>

\* the geometry or the style of a feature is changed
ModifyFeature ==
    /\ Editable
    /\ features > 0
    /\ debounceSaveDrawing
    /\ UNCHANGED <<activeKmlLayer, savesInProgress, isNewDrawing, features,
                   closing, awaited, documents, nSaves>>
    /\ UNCHANGED <<paramVars, promiseVars, searchVars, storeVars>>

\* watch(featureIds): features were removed with the trash button
RemoveFeatures ==
    /\ Editable
    /\ features > 0
    /\ features' \in 0..(features - 1)
    /\ debounceSaveDrawing
    /\ UNCHANGED <<activeKmlLayer, savesInProgress, isNewDrawing, closing,
                   awaited, documents, nSaves>>
    /\ UNCHANGED <<paramVars, promiseVars, searchVars, storeVars>>

\* time passes: one tick less for every timer that is not due yet
Tick ==
    /\ closing # "closed"
    /\ (debounceLog.sinceEdit < QuietPeriod \/ \E t \in timers : t > 0)
    /\ timers' = {IF t > 0 THEN t - 1 ELSE 0 : t \in timers}
    /\ debounceLog' =
          [debounceLog EXCEPT
              !.sinceEdit = IF @ < QuietPeriod THEN @ + 1 ELSE QuietPeriod]
    /\ event' = Event("tick", <<>>)
    /\ UNCHANGED <<saveState, activeKmlLayer, pendingSaveHandle, savesInProgress,
                   isNewDrawing, features, closing, awaited, documents, nSaves,
                   closeLog>>
    /\ UNCHANGED <<paramVars, promiseVars, searchVars, storeVars>>

\* every save creates a document
saveRequest_post(layer, id, final, content) ==
    [id |-> id, method |-> "POST", fileId |-> 0, final |-> final,
     content |-> content]

\* the request a save sends for the KML layer `layer` and the features
\* `content`: an update of the document when the session holds its adminId,
\* the creation of a document when it does not
saveRequest(layer, id, final, content) ==
    IF layer.adminId
    THEN [id |-> id, method |-> "PUT", fileId |-> layer.fileId, final |-> final,
          content |-> content]
    ELSE [id |-> id, method |-> "POST", fileId |-> 0, final |-> final,
          content |-> content]

\* the timer of a debounced save is due and fires: the save is sent
TimerFires ==
    /\ Editable
    /\ 0 \in timers
    /\ nSaves < MaxSaves
    /\ timers' = timers \ {0}
    /\ pendingSaveHandle' = FALSE
    /\ saveState' = "SAVING"
    /\ nSaves' = nSaves + 1
    /\ savesInProgress' =
          savesInProgress
              \cup {saveRequest(activeKmlLayer, nSaves + 1, FALSE, features)}
    /\ debounceLog' = [debounceLog EXCEPT !.saves = @ + 1,
                                          !.quiet = debounceLog.sinceEdit]
    /\ closeLog' =
          IF closeLog.called
          THEN [closeLog EXCEPT
                   !.debounced = @ + 1,
                   !.extra = IF closeLog.sinceFinal = "quiet" THEN @ + 1 ELSE @]
          ELSE closeLog
    /\ event' = Event("fire", <<"SAVING">>)
    /\ UNCHANGED <<activeKmlLayer, isNewDrawing, features, closing, awaited,
                   documents>>
    /\ UNCHANGED <<paramVars, promiseVars, searchVars, storeVars>>

\* the scheduled save stays scheduled
saveNow_keepsTimer(ts) == ts

\* debounceSaveDrawing({ debounceTime: 0 }), for the timers that are set:
\* the scheduled save is cancelled, the save is sent at once
saveNow(ts) == clearPendingSaveDrawing(ts)

\* closeDrawing after `await Promise.all(savesInProgress.value)`, when the
\* save state is state1, the KML layer layer1, the saves in progress sip1
\* and the timers set timer1: the final save is sent at once (no debounce
\* time) and awaited, or there is none and toggleDrawingOverlay is
\* dispatched
afterSavesInProgress(state1, layer1, sip1, timer1, log) ==
    IF saveOnClose(state1, isNewDrawing, isDrawingEmpty)
    THEN /\ saveState' = "SAVING"
         /\ timers' = saveNow(timer1)
         /\ pendingSaveHandle' = FALSE
         /\ savesInProgress' =
               sip1 \cup {saveRequest(layer1, nSaves + 1, TRUE, features)}
         /\ nSaves' = nSaves + 1
         /\ closing' = "awaitFinal"
         /\ awaited' = {nSaves + 1}
         /\ closeLog' = [log EXCEPT !.finalSaves = @ + 1, !.sinceFinal = "quiet"]
    ELSE /\ saveState' = state1
         /\ timers' = timer1
         /\ pendingSaveHandle' = (timer1 # {})
         /\ savesInProgress' = sip1
         /\ nSaves' = nSaves
         /\ closing' = "closed"
         /\ awaited' = {}
         /\ closeLog' = log

\* the save states closeDrawing goes through after the await, from state1
statesAfterSavesInProgress(state1) ==
    IF saveOnClose(state1, isNewDrawing, isDrawingEmpty) THEN <<"SAVING">>
    ELSE <<>>

\* the pending save is not cleared
pendingAfterClose_kept(ts) == ts

\* closeDrawing: `clearPendingSaveDrawing()` on the timers set
pendingAfterClose(ts) == clearPendingSaveDrawing(ts)

\* closeDrawing, from the click to its first await that waits: the pending
\* save is cleared and the saves in progress at this moment are awaited;
\* with none of them, closeDrawing goes on in the same task
CloseDrawing ==
    /\ closing = "open"
    /\ LET log == [called |-> TRUE, state |-> saveState, isNew |-> isNewDrawing,
                   empty |-> isDrawingEmpty, saved |-> nSaves, finalSaves |-> 0,
                   pending |-> (timers # {}),
                   inProgress |-> Cardinality(savesInProgress),
                   edited |-> FALSE, debounced |-> 0, sinceFinal |-> "none",
                   extra |-> 0]
           timer1 == pendingAfterClose(timers)
       IN  IF savesInProgress = {}
           THEN /\ afterSavesInProgress(saveState, activeKmlLayer,
                                        savesInProgress, timer1, log)
                /\ event' = Event("close", statesAfterSavesInProgress(saveState))
           ELSE /\ timers' = timer1
                /\ pendingSaveHandle' = (timer1 # {})
                /\ closing' = "awaitSaves"
                /\ awaited' = {s.id : s \in savesInProgress}
                /\ closeLog' = log
                /\ event' = Event("close", <<>>)
                /\ UNCHANGED <<saveState, savesInProgress, nSaves>>
    /\ UNCHANGED <<activeKmlLayer, isNewDrawing, features, documents, debounceLog>>
    /\ UNCHANGED <<paramVars, promiseVars, searchVars, storeVars>>

\* the fileId the backend gives the next document it creates
nextFileId == OriginalFileId + documents.created + 1

\* the save state a save leaves when it settles
stateAfterSave(ok) == IF ok THEN "SAVED" ELSE "SAVE_ERROR"

\* a final save that failed leaves closeDrawing where it awaits
closingAfterSave_failedStays(c, left, ok) ==
    IF c = "awaitFinal" /\ left = {} /\ ok THEN "closed" ELSE c

\* closeDrawing after `await debounceSaveDrawing(...)`: when the final save
\* has settled, whatever its outcome, toggleDrawingOverlay is dispatched and
\* the loading bar requester is cleared
closingAfterSave(c, left, ok) ==
    IF c = "awaitFinal" /\ left = {} THEN "closed" ELSE c

\* the backend answers a save request, or the request fails.  A created
\* document becomes the KML layer of the session, with its adminId.  The
\* save state becomes SAVED or SAVE_ERROR, the promise of the save is
\* fulfilled either way, and closeDrawing goes on when it awaited this save
\* last.
SaveSettles ==
    /\ closing # "closed"
    /\ \E s \in savesInProgress, ok \in BOOLEAN :
          LET sip1 == savesInProgress \ {s}
              layer1 == IF ok /\ s.method = "POST"
                        THEN [fileId |-> nextFileId, adminId |-> TRUE]
                        ELSE activeKmlLayer
              state1 == stateAfterSave(ok)
              left == awaited \ {s.id}
              kind == IF ok THEN "saveOk" ELSE "saveFailed"
          IN  /\ activeKmlLayer' = layer1
              /\ documents' =
                    IF ~ok THEN documents
                    ELSE IF s.method = "POST"
                    THEN [documents EXCEPT !.created = @ + 1]
                    ELSE [documents EXCEPT !.updated = @ \cup {s.fileId}]
              /\ IF closing = "awaitSaves" /\ left = {}
                 THEN /\ afterSavesInProgress(state1, layer1, sip1, timers,
                                              closeLog)
                      /\ event' =
                            Event(kind, <<state1>>
                                           \o statesAfterSavesInProgress(state1))
                 ELSE /\ saveState' = state1
                      /\ savesInProgress' = sip1
                      /\ awaited' = left
                      /\ closing' = closingAfterSave(closing, left, ok)
                      /\ event' = Event(kind, <<state1>>)
                      /\ UNCHANGED <<pendingSaveHandle, nSaves, closeLog, timers>>
    /\ UNCHANGED <<isNewDrawing, features, debounceLog>>
    /\ UNCHANGED <<paramVars, promiseVars, searchVars, storeVars>>

NextDrawing ==
    \/ OnMounted
    \/ KmlLoaded
    \/ AddFeature
    \/ ModifyFeature
    \/ RemoveFeatures
    \/ Tick
    \/ TimerFires
    \/ CloseDrawing
    \/ SaveSettles

\* a session for each KML layer the store may hold; the param config and
\* the search play no part
InitDrawing ==
    /\ cfg = [kind |-> "Abstract", urlParamName |-> "p", valueType |-> "String",
              keepValueInUrlWhenEmpty |-> TRUE, setValuesInStore |-> TRUE,
              extractValueFromStore |-> "field"]
    /\ query = [k \in {} |-> JsUndefined]
    /\ storeValue = JsNull
    /\ op = "init"
    /\ args = NoArgs
    /\ ret = JsUndefined
    /\ queryBefore = query
    /\ storeBefore = storeValue
    /\ IdlePromise
    /\ IdleSearch
    /\ IdleStore
    /\ SetupDrawing
    /\ activeKmlLayer \in InitialKmlLayers
    /\ documents = [original |-> activeKmlLayer, created |-> 0, updated |-> {}]

SpecDrawing == InitDrawing /\ [][NextDrawing]_vars

\* closeDrawing has dispatched toggleDrawingOverlay
TornDown == closing = "closed"

\* the session started with a document
ExistedBefore == documents.original.fileId # 0

\* C16: when closeDrawing is called with the save state MODIFIED_UNSAVED and
\* a drawing that is not empty or existed before the session, it has sent
\* exactly one final save when it tears the session down, and that save has
\* settled
C16_OneFinalSaveOnClose ==
    (/\ TornDown
     /\ closeLog.state = "MODIFIED_UNSAVED"
     /\ (~closeLog.empty \/ ExistedBefore))
        => /\ closeLog.finalSaves = 1
           /\ \A s \in savesInProgress : ~s.final

\* C17: closeDrawing sends no save when it is called on a new, empty drawing
\* of which nothing was saved, or on an existing drawing that was loaded and
\* not changed; the KML layer is then the one the session started with
C17_NothingToPersist ==
    (/\ closeLog.called
     /\ \/ (~ExistedBefore /\ closeLog.empty /\ closeLog.saved = 0)
        \/ (ExistedBefore /\ closeLog.state = "LOADED"))
        => /\ closeLog.finalSaves = 0
           /\ nSaves = 0
           /\ TornDown
           /\ activeKmlLayer = documents.original
           /\ documents.created = 0

C17_Witness ==
    /\ TornDown
    /\ ~ExistedBefore
    /\ closeLog.state = "MODIFIED_UNSAVED"
    /\ closeLog.empty
    /\ closeLog.saved = 0

\* C18: when closeDrawing dispatches toggleDrawingOverlay, no debounced save
\* is scheduled and no save is in progress
C18_TeardownAfterSaves ==
    TornDown => (~pendingSaveHandle /\ savesInProgress = {})

\* C19: a session that loaded a document without its adminId creates at
\* most one document, never updates the original, and sends every save it
\* makes after the copy exists as an update of the copy
C19_CopyOnWrite ==
    (ExistedBefore /\ ~documents.original.adminId)
        => /\ documents.created <= 1
           /\ OriginalFileId \notin documents.updated
           /\ \A s \in savesInProgress :
                 s.method = "PUT" => s.fileId = activeKmlLayer.fileId

\* C20: a session that starts without a fileId creates exactly one document
\* however many saves it makes: every save after the first updates the
\* fileId the first one created
C20_OneDocumentPerSession ==
    ~ExistedBefore
        => /\ documents.created <= 1
           /\ documents.updated \subseteq {activeKmlLayer.fileId}

\* the documents the session created
CreatedFileIds ==
    {OriginalFileId + k : k \in 1..(documents.created + 1)} \ {nextFileId}

\* C21: a session that holds the adminId of its document from the start
\* sends every save as an update of that fileId and creates no document; a
\* session without it never updates the document it started with, and what
\* it updates is a document it created itself
C21_AdminIdDecidesTheSave ==
    /\ documents.original.adminId
          => /\ documents.created = 0
             /\ documents.updated \subseteq {OriginalFileId}
             /\ activeKmlLayer = documents.original
             /\ \A s \in savesInProgress :
                   s.method = "PUT" /\ s.fileId = OriginalFileId
    /\ ~documents.original.adminId
          => /\ documents.updated \subseteq CreatedFileIds
             /\ \A s \in savesInProgress :
                   s.method = "PUT" => s.fileId \in CreatedFileIds

C21_Witness ==
    /\ documents.original.adminId
    /\ documents.updated = {OriginalFileId}
    /\ nSaves = 2
    /\ \E s \in savesInProgress : s.method = "PUT"

\* C22: at most one debounce timer is set at any time, and it is due a
\* quiet period after the last edit; after an edit the save stays scheduled
\* until it is sent or closeDrawing is called; the edits since the last
\* debounced save lead to at most one save, sent when a full quiet period
\* has passed since the last of them
C22_Debounce ==
    /\ Cardinality(timers) <= 1
    /\ \A t \in timers : t = QuietPeriod - debounceLog.sinceEdit
    /\ (debounceLog.edited /\ debounceLog.saves = 0 /\ ~closeLog.called)
          => timers # {}
    /\ debounceLog.saves <= 1
    /\ debounceLog.quiet = QuietPeriod

C22_Witness ==
    /\ event.kind = "fire"
    /\ debounceLog.replaced
    /\ debounceLog.saves = 1
    /\ debounceLog.quiet = QuietPeriod
    /\ timers = {}
    /\ nSaves = 2

\* C23: a save that fails leaves the save state SAVE_ERROR and the features
\* as they were; its promise is fulfilled, so closeDrawing does not wait for
\* it any longer; when it goes on it only skips the final save for a new,
\* empty drawing, and the final save it sends carries exactly these features
C23_FailedSaveKeepsEdits ==
    event.kind = "saveFailed"
        => /\ event.path[2] = "SAVE_ERROR"
           /\ features = event.features
           /\ awaited \subseteq {s.id : s \in savesInProgress}
           /\ (closing \in {"awaitSaves", "awaitFinal"}) => awaited # {}
           /\ (TornDown /\ closeLog.finalSaves = 0)
                 => (isNewDrawing /\ isDrawingEmpty)
           /\ Len(event.path) = 3
                 => /\ saveState = "SAVING"
                    /\ \E s \in savesInProgress :
                          s.final /\ s.id = nSaves /\ s.content = features

C23_Witness ==
    /\ event.kind = "saveFailed"
    /\ event.path = <<"SAVING", "SAVE_ERROR", "SAVING">>
    /\ features > 0
    /\ closing = "awaitFinal"

\* the transitions of the save state the claim lists
ListedTransitions ==
    {<<"INITIAL", "LOADED">>, <<"INITIAL", "LOAD_ERROR">>,
     <<"LOADED", "MODIFIED_UNSAVED">>, <<"SAVED", "MODIFIED_UNSAVED">>,
     <<"SAVE_ERROR", "MODIFIED_UNSAVED">>, <<"MODIFIED_UNSAVED", "SAVING">>,
     <<"SAVING", "SAVED">>, <<"SAVING", "SAVE_ERROR">>}

\* the changes of the save state in the last task
Changes ==
    {<<event.path[i], event.path[i + 1]>> : i \in 1..(Len(event.path) - 1)}
        \ {<<st, st>> : st \in DrawingState}

SameValue(c, q, s) ==
    LET fromQuery == readValueFromQuery(c, q)
        fromStore == readValueFromStore(c, s)
    IN  IF fromQuery = JsWrapper /\ fromStore = JsWrapper
        THEN QueryGet(q, c.urlParamName) = extractValueFromStore(c, s)
        ELSE fromQuery = fromStore

\* C25: valuesAreDifferentBetweenQueryAndStore returns true if and only if
\* the value read from the query and the value read from the store are not
\* the same value; it returns false for a Number param whose raw value is
\* no number on both sides and for an Object param with the same raw value
\* on both sides
C25_DifferentIffValuesDiffer ==
    op = "valuesAreDifferentBetweenQueryAndStore"
        => ret = JsBool(~SameValue(cfg, QueryPassed(args), StorePassed(args)))

\* C26: as long as the valid search() started last has a pending request,
\* the shared cancel token is the token of that search; the token is only
\* cleared when no batch has a pending request
C26_TokenOfTheNewestBatch ==
    /\ (nCalls > 0 /\ Live(nCalls)) => cancelToken = nCalls
    /\ cancelToken = 0 => \A b \in 1..nCalls : ~Live(b)
    /\ cancelToken # 0 => cancelToken = nCalls

\* C27: after a valid search() call no batch but the one it issued has a
\* pending request: the batch that was pending was cancelled before the
\* requests of the new one were sent
C27_PreviousCancelledFirst ==
    \A b \in DOMAIN inFlight : Live(b) => b = nCalls

\* C28: while the final save of closeDrawing is in flight, no save that was
\* in flight when closeDrawing was called is, and no other save of the
\* session either: the final save does not overlap with any save
C28_FinalSaveAlone ==
    \A s \in savesInProgress :
        s.final => /\ \A o \in savesInProgress : o.id > closeLog.saved
                   /\ savesInProgress = {s}

\* C29: once closeDrawing has called clearPendingSaveDrawing, no timer is
\* set and no debounced save is sent until a new edit schedules one; the
\* call itself sends nothing and leaves the save state and the saves in
\* progress as they were, whether a save was scheduled or not
C29_ClearedSaveNeverSent ==
    /\ (closeLog.called /\ ~closeLog.edited)
          => /\ timers = {}
             /\ ~pendingSaveHandle
             /\ closeLog.debounced = 0
    /\ (event.kind = "close" /\ closing = "awaitSaves")
          => /\ saveState = closeLog.state
             /\ nSaves = closeLog.saved
             /\ Cardinality(savesInProgress) = closeLog.inProgress

C29_Witness ==
    /\ closeLog.called
    /\ closeLog.pending
    /\ ~closeLog.edited
    /\ closing = "awaitSaves"
    /\ event.kind = "tick"
    /\ debounceLog.sinceEdit = QuietPeriod
    /\ nSaves < MaxSaves

\* C30 as stated: closeDrawing sends its final save in the task of the click
\* only from MODIFIED_UNSAVED; called in the state SAVED with no save scheduled
\* or in flight, it sends no save request
C30_NoFinalSaveWhenSaved ==
    /\ (event.kind = "close" /\ closeLog.finalSaves = 1)
          => closeLog.state = "MODIFIED_UNSAVED"
    /\ (/\ closeLog.called
        /\ closeLog.state = "SAVED"
        /\ ~closeLog.pending
        /\ closeLog.inProgress = 0
        /\ ~closeLog.edited)
          => /\ closeLog.finalSaves = 0
             /\ nSaves = closeLog.saved

\* closeDrawing was called in the state SAVED with no save scheduled or in
\* flight, and the drawing was not edited since
ClosedWhenSaved ==
    /\ closeLog.called
    /\ closeLog.state = "SAVED"
    /\ ~closeLog.pending
    /\ closeLog.inProgress = 0
    /\ ~closeLog.edited

\* C30, amended: closeDrawing sends its final save in the task of the click
\* only when the save state is MODIFIED_UNSAVED, SAVED or SAVE_ERROR and the
\* drawing is not new and empty; called in the state SAVED with no save
\* scheduled or in flight, it sends exactly one more request, an update of
\* the document of the session, unless the drawing is new and empty
C30_FinalSaveWhenModified ==
    /\ (event.kind = "close" /\ closeLog.finalSaves = 1)
          => /\ closeLog.state \in {"MODIFIED_UNSAVED", "SAVED", "SAVE_ERROR"}
             /\ ~(closeLog.isNew /\ closeLog.empty)
    /\ ClosedWhenSaved
          => /\ closeLog.finalSaves
                   = (IF closeLog.isNew /\ closeLog.empty THEN 0 ELSE 1)
             /\ nSaves = closeLog.saved + closeLog.finalSaves
             /\ \A s \in savesInProgress :
                   /\ s.final
                   /\ s.method = "PUT"
                   /\ s.fileId = activeKmlLayer.fileId

C30_Witness ==
    /\ ClosedWhenSaved
    /\ closeLog.finalSaves = 1
    /\ closing = "awaitFinal"
    /\ \E s \in savesInProgress : s.final /\ s.method = "PUT"

\* C31: the final save of closeDrawing, sent with no debounce time, leaves
\* no timer set and the save state SAVING; it is one request, and the save
\* that was scheduled is not sent in addition: no debounced save follows
\* the final save unless the drawing is edited again
C31_SaveNowIsOneSave ==
    /\ closeLog.finalSaves <= 1
    /\ closeLog.extra = 0
    /\ closeLog.sinceFinal = "quiet" => timers = {}
    /\ (Len(event.path) > 1
           /\ event.path[Len(event.path)] = "SAVING"
           /\ event.kind \in {"close", "saveOk", "saveFailed"})
          => /\ saveState = "SAVING"
             /\ timers = {}
             /\ Cardinality({s \in savesInProgress : s.final}) = 1
             /\ \A s \in savesInProgress : s.final => s.id = nSaves

C31_Witness ==
    /\ closeLog.sinceFinal = "quiet"
    /\ closeLog.edited
    /\ debounceLog.saves = 0
    /\ debounceLog.sinceEdit = QuietPeriod
    /\ event.kind = "tick"
    /\ closing = "awaitFinal"
    /\ nSaves <= MaxSaves


(***************************************************************************)
(* search.api.js: the requests of one search(), for longer lists of layers *)
(* than the search protocol above is run with.                             *)
(***************************************************************************)
\* the most layers layersToSearch holds here
MaxConfigLayers == 5

ConfigLayerLists ==
    UNION {[1..n -> [searchable : BOOLEAN]] : n \in 0..MaxConfigLayers}

\* a valid config with the given layers
ValidConfig(layers) ==
    [outputProjection |-> "LV95", lang |-> "en", queryString |-> "te",
     layersToSearch |-> layers]

\* search() builds allRequests for the list
BuildRequests ==
    /\ ~requestsOf.built
    /\ validationError(ValidConfig(requestsOf.layers)) = ""
    /\ requestsOf' = [requestsOf EXCEPT
                         !.built = TRUE,
                         !.reqs = allRequests(ValidConfig(requestsOf.layers))]
    /\ UNCHANGED <<paramVars, promiseVars, searchVars, drawingVars>>
    /\ UNCHANGED <<overlayVars, uiVars, layersVars>>

NextRequests == BuildRequests

InitRequests ==
    /\ cfg = [kind |-> "Abstract", urlParamName |-> "p", valueType |-> "String",
              keepValueInUrlWhenEmpty |-> TRUE, setValuesInStore |-> TRUE,
              extractValueFromStore |-> "field"]
    /\ query = [k \in {} |-> JsUndefined]
    /\ storeValue = JsNull
    /\ op = "init"
    /\ args = NoArgs
    /\ ret = JsUndefined
    /\ queryBefore = query
    /\ storeBefore = storeValue
    /\ IdlePromise
    /\ IdleSearch
    /\ IdleDrawing
    /\ IdleOverlay
    /\ IdleUi
    /\ IdleLayers
    /\ requestsOf \in {[layers |-> l, built |-> FALSE, reqs |-> <<>>] :
                          l \in ConfigLayerLists}

SpecRequests == InitRequests /\ [][NextRequests]_vars

\* the indexes of the layers of the list that have the searchable flag
Searchable == {i \in 1..Len(requestsOf.layers) : requestsOf.layers[i].searchable}

\* C32: the requests of a valid search() are one layers request, one
\* locations request, then one feature search for each layer with the
\* searchable flag, in the order of the list, and nothing else: two
\* requests when no layer has the flag
C32_RequestsOfASearch ==
    requestsOf.built
        => LET reqs == requestsOf.reqs
           IN  /\ Len(reqs) = 2 + Cardinality(Searchable)
               /\ reqs[1] = [type |-> "layers", layer |-> 0, st |-> "pending"]
               /\ reqs[2] = [type |-> "locations", layer |-> 0, st |-> "pending"]
               /\ \A k \in 3..Len(reqs) :
                     /\ reqs[k].type = "featuresearch"
                     /\ reqs[k].layer \in Searchable
                     /\ reqs[k].st = "pending"
                     /\ \A j \in 3..(k - 1) : reqs[j].layer < reqs[k].layer

C32_Witness ==
    /\ requestsOf.built
    /\ Len(requestsOf.layers) = 3
    /\ Searchable = {1, 3}
    /\ Len(requestsOf.reqs) = 4

\* C34: a search() that is refused by one of the three tests changes
\* neither the shared cancel token nor the batches in flight and their
\* requests, so the pending search goes on as if the call was not made
C34_RefusedSearchChangesNothing ==
    [][(settled'.status = "rejected" /\ settled'.call = 0)
          => (cancelToken' = cancelToken /\ nCalls' = nCalls
                 /\ inFlight' = inFlight)]_vars

C34_Witness ==
    /\ settled.status = "rejected"
    /\ settled.call = 0
    /\ nCalls > 0
    /\ Live(nCalls)
    /\ cancelToken = nCalls

\* C35: for a QueryToStoreOnlyParamConfig that is not kept in the URL when
\* empty, with valueType String, Number or Boolean, and a query that does
\* not hold the param, valuesAreDifferentBetweenQueryAndStore returns false
\* whatever the store holds
C35_AbsentOneWayParamIsNotDifferent ==
    (/\ op = "valuesAreDifferentBetweenQueryAndStore"
     /\ cfg.kind = "QueryToStoreOnly"
     /\ ~cfg.keepValueInUrlWhenEmpty
     /\ cfg.valueType \in {"String", "Number", "Boolean"}
     /\ args.q
     /\ args.s
     /\ ~InQuery(cfg.urlParamName, QueryPassed(args)))
        => ret = JsBool(FALSE)

\* 'closing-drawing' is among the loading bar requesters: from the first
\* statement of closeDrawing to its last
ClosingDrawingRequester == closing \in {"awaitSaves", "awaitFinal"}

\* C36: closeDrawing holds its loading bar requester, with the drawing
\* overlay still shown, only while a save it awaits is in flight: when the
\* saves it awaits have settled, with or without success, the overlay has
\* been toggled and the requester cleared
C36_CloseDrawingCompletes ==
    /\ closeLog.called => closing # "open"
    /\ ClosingDrawingRequester
          => /\ awaited # {}
             /\ awaited \subseteq {s.id : s \in savesInProgress}

C36_Witness ==
    /\ closing = "closed"
    /\ ~ClosingDrawingRequester
    /\ event.kind = "saveFailed"
    /\ closeLog.finalSaves = 1
    /\ saveState = "SAVE_ERROR"

(***************************************************************************)
(* map.store.js: the overlay of the map and its callbacks                  *)
(***************************************************************************)

\* the callbacks stay in the list when the overlay is hidden
callbacksAfterHide_kept(callbacks) == callbacks

\* toggleMapOverlay, the branch that hides: `callbacksOnClose = []`
callbacksAfterHide(callbacks) == <<>>

\* the elements of a list
Range(list) == {list[i] : i \in 1..Len(list)}

\* mutation toggleMapOverlay(state, callbackOnClose), given with a callback
\* (a function not registered before) or without: show is flipped; a
\* callback given when the overlay shows up is appended; when the overlay
\* is hidden every callback of the list is called, in order, and the list
\* is emptied
toggleMapOverlay ==
    /\ \E withCallback \in BOOLEAN :
          LET show == ~overlay.show
              callbackOnClose == overlayLog.registered + 1
              callbacks == overlay.callbacksOnClose
          IN  /\ withCallback => overlayLog.registered < MaxCallbacks
              /\ IF show /\ withCallback
                 THEN /\ overlay' = [show |-> show,
                                     callbacksOnClose |->
                                         Append(callbacks, callbackOnClose)]
                      /\ overlayLog' = [overlayLog EXCEPT
                                           !.registered = callbackOnClose,
                                           !.mutations = @ + 1,
                                           !.last = "toggleMapOverlay",
                                           !.called = {}]
                 ELSE IF ~show /\ Len(callbacks) > 0
                 THEN /\ overlay' = [show |-> show,
                                     callbacksOnClose |->
                                         callbacksAfterHide(callbacks)]
                      /\ overlayLog' = [overlayLog EXCEPT
                                           !.registered =
                                               IF withCallback
                                               THEN callbackOnClose ELSE @,
                                           !.invoked =
                                               [c \in 1..MaxCallbacks |->
                                                   IF c \in Range(callbacks)
                                                   THEN @[c] + 1 ELSE @[c]],
                                           !.mutations = @ + 1,
                                           !.last = "toggleMapOverlay",
                                           !.called = Range(callbacks)]
                 ELSE /\ overlay' = [overlay EXCEPT !.show = show]
                      /\ overlayLog' = [overlayLog EXCEPT
                                           !.registered =
                                               IF withCallback
                                               THEN callbackOnClose ELSE @,
                                           !.mutations = @ + 1,
                                           !.last = "toggleMapOverlay",
                                           !.called = {}]
    /\ overlayLog.mutations < MaxMutations
    /\ UNCHANGED <<paramVars, promiseVars, searchVars, drawingVars, requestVars>>
    /\ UNCHANGED <<uiVars, layersVars>>

\* mutation clearOverlayCallbacks: the list is emptied, nothing is called
clearOverlayCallbacks ==
    /\ overlayLog.mutations < MaxMutations
    /\ overlay' = [overlay EXCEPT !.callbacksOnClose = <<>>]
    /\ overlayLog' = [overlayLog EXCEPT
                         !.mutations = @ + 1,
                         !.last = "clearOverlayCallbacks",
                         !.called = {}]
    /\ UNCHANGED <<paramVars, promiseVars, searchVars, drawingVars, requestVars>>
    /\ UNCHANGED <<uiVars, layersVars>>

NextOverlay ==
    \/ toggleMapOverlay
    \/ clearOverlayCallbacks

\* the store as created: the initial state of map.store.js
InitOverlay ==
    /\ IdleSync
    /\ IdlePromise
    /\ IdleSearch
    /\ IdleDrawing
    /\ IdleRequests
    /\ IdleOverlay
    /\ IdleUi
    /\ IdleLayers

SpecOverlay == InitOverlay /\ [][NextOverlay]_vars

\* C38: whenever the overlay is not shown the list of callbacks is empty;
\* no callback is invoked more than once, a callback that was invoked is
\* in the list no more, and callbacks are invoked only by a
\* toggleMapOverlay that hides the overlay
C38_CallbacksOfTheOverlay ==
    /\ ~overlay.show => overlay.callbacksOnClose = <<>>
    /\ \A c \in 1..MaxCallbacks :
          /\ overlayLog.invoked[c] <= 1
          /\ overlayLog.invoked[c] = 1 => c \notin Range(overlay.callbacksOnClose)
          /\ c \in Range(overlay.callbacksOnClose) => c <= overlayLog.registered
    /\ overlayLog.called # {}
          => (overlayLog.last = "toggleMapOverlay" /\ ~overlay.show)

C38_Witness ==
    /\ ~overlay.show
    /\ overlayLog.called = {2}
    /\ overlayLog.invoked[1] = 0
    /\ overlayLog.invoked[2] = 1
    /\ overlay.callbacksOnClose = <<>>

(***************************************************************************)
(* uiModeChangeManagementPlugin: the ui mode follows the size of the       *)
(* screen                                                                  *)
(***************************************************************************)
UIModes == {"MENU_OPENED_THROUGH_BUTTON", "MENU_ALWAYS_OPEN"}

\* the sizes around the two thresholds
Widths ==
    {widthThresholdToAlwaysShowMenu - 1, widthThresholdToAlwaysShowMenu,
     widthThresholdToAlwaysShowMenu + 1}

Heights ==
    {heightMinimumThresholdToAlwaysShowMenu - 1,
     heightMinimumThresholdToAlwaysShowMenu,
     heightMinimumThresholdToAlwaysShowMenu + 1}

\* the menu is always open from the height threshold on
wantedUiMode_heightAtLeast(width, height) ==
    IF width >= widthThresholdToAlwaysShowMenu
       /\ height >= heightMinimumThresholdToAlwaysShowMenu
    THEN "MENU_ALWAYS_OPEN"
    ELSE "MENU_OPENED_THROUGH_BUTTON"

\* the subscriber on setSize: the mode the size asks for
wantedUiMode(width, height) ==
    IF width >= widthThresholdToAlwaysShowMenu
       /\ height > heightMinimumThresholdToAlwaysShowMenu
    THEN "MENU_ALWAYS_OPEN"
    ELSE "MENU_OPENED_THROUGH_BUTTON"

\* the callback of the plugin that hides the menu tray
hideMenuTray == 0

\* action showOverlay(callback): the overlay is shown, the callback kept
showOverlay(o, callback) ==
    [show |-> TRUE, callbacksOnClose |-> Append(o.callbacksOnClose, callback)]

\* action hideOverlayIgnoringCallbacks: the overlay is hidden, the
\* callbacks are dropped without a call
hideOverlayIgnoringCallbacks(o) == [show |-> FALSE, callbacksOnClose |-> <<>>]

\* mutation setSize: the store takes the size of the screen, and the
\* subscribers of the store are told
SetSize ==
    /\ uiLog.pending = <<>>
    /\ \E width \in Widths, height \in Heights :
          ui' = [ui EXCEPT !.width = width, !.height = height]
    /\ uiLog' = [pending |-> <<"setSize">>, last |-> "setSize",
                 modeBefore |-> ui.mode, dispatched |-> 0]
    /\ UNCHANGED <<paramVars, promiseVars, searchVars, drawingVars, requestVars>>
    /\ UNCHANGED <<overlayVars, layersVars>>

\* the subscriber of the plugin, told of a mutation.  On setSize it
\* dispatches setUiMode when the mode the size asks for is not the mode of
\* the store; setUiMode sets the mode and the subscribers are told.  On
\* setUiMode it shows or hides the overlay of the map.
Subscriber ==
    /\ uiLog.pending # <<>>
    /\ LET mutation == Head(uiLog.pending)
       IN  IF mutation = "setUiMode"
           THEN /\ overlay' =
                      IF /\ ui.mode = "MENU_OPENED_THROUGH_BUTTON"
                         /\ ui.showMenuTray
                         /\ ~ui.showDrawingOverlay
                      THEN showOverlay(overlay, hideMenuTray)
                      ELSE IF ui.mode = "MENU_ALWAYS_OPEN" /\ overlay.show
                      THEN hideOverlayIgnoringCallbacks(overlay)
                      ELSE overlay
                /\ uiLog' = [uiLog EXCEPT !.pending = Tail(@)]
                /\ UNCHANGED ui
           ELSE LET wanted == wantedUiMode(ui.width, ui.height)
                IN  /\ IF wanted # ui.mode
                       THEN /\ ui' = [ui EXCEPT !.mode = wanted]
                            /\ uiLog' = [uiLog EXCEPT
                                            !.pending = Append(Tail(@), "setUiMode"),
                                            !.dispatched = @ + 1]
                       ELSE /\ uiLog' = [uiLog EXCEPT !.pending = Tail(@)]
                            /\ UNCHANGED ui
                    /\ UNCHANGED overlay
    /\ UNCHANGED overlayLog
    /\ UNCHANGED <<paramVars, promiseVars, searchVars, drawingVars, requestVars>>
    /\ UNCHANGED <<layersVars>>

NextUi ==
    \/ SetSize
    \/ Subscriber

\* the plugin installed on a store with any size, mode and menu
InitUi ==
    /\ IdleSync
    /\ IdlePromise
    /\ IdleSearch
    /\ IdleDrawing
    /\ IdleRequests
    /\ IdleOverlay
    /\ ui \in [width : Widths, height : Heights, mode : UIModes,
                showMenuTray : BOOLEAN, showDrawingOverlay : BOOLEAN]
    /\ uiLog = [NoUiLog EXCEPT !.modeBefore = ui.mode]
    /\ IdleLayers

SpecUi == InitUi /\ [][NextUi]_vars

\* the subscriber has seen the last setSize and what it dispatched
SizeProcessed == uiLog.last = "setSize" /\ uiLog.pending = <<>>

\* C39: when a setSize and the dispatch it triggers are processed, the mode
\* is MENU_ALWAYS_OPEN if the width is at least the sm breakpoint and the
\* height is more than 500, and MENU_OPENED_THROUGH_BUTTON if not; setUiMode
\* was dispatched once if the mode had to change and not at all if not, and
\* never more than one mutation waits for the subscriber
C39_ModeFollowsSize ==
    /\ Len(uiLog.pending) <= 1
    /\ uiLog.dispatched <= 1
    /\ SizeProcessed
          => /\ ui.mode \in UIModes
             /\ ui.mode = "MENU_ALWAYS_OPEN"
                   <=> (ui.width >= 576 /\ ui.height > 500)
             /\ uiLog.dispatched = 1 <=> ui.mode # uiLog.modeBefore

C39_Witness ==
    /\ SizeProcessed
    /\ uiLog.dispatched = 1
    /\ uiLog.modeBefore = "MENU_OPENED_THROUGH_BUTTON"
    /\ ui.mode = "MENU_ALWAYS_OPEN"
    /\ ui.width = 576
    /\ ui.height = 501

(***************************************************************************)
(* load-layersconfig-on-lang-change.js: the layers config and the topics   *)
(* of the language of the store                                            *)
(***************************************************************************)

\* the cache is never read
cached_never(cache, lang) == FALSE

\* loadLayersConfig: `layersConfigByLang[lang]` holds a config
cached(cache, lang) == cache[lang]

\* loadLayersAndTopicsConfigAndDispatchToStore up to its first await that
\* waits for the backend, with the language the store has at the call:
\* the layers config is asked from the backend, or taken from
\* layersConfigByLang and the topics are asked
startLoad(lang, log) ==
    LET hit == cached(layersState.cache, lang)
    IN  /\ loads' = loads \cup
               {[id |-> log.started + 1, lang |-> lang,
                 pc |-> IF hit THEN "topics" ELSE "config", treeLang |-> "none"]}
        /\ layersLog' =
              [log EXCEPT
                  !.started = @ + 1,
                  !.calls[lang] = IF hit THEN @ ELSE @ + 1,
                  !.hits = IF hit THEN @ + 1 ELSE @,
                  !.late = IF ~hit /\ log.loaded[lang] > 0 THEN @ + 1 ELSE @]

\* mutation SET_LANG_MUTATION_KEY: the store has a language, the same or
\* another, and the subscriber of the plugin starts a load
SetLang ==
    /\ layersLog.started < MaxLoads
    /\ \E lang \in Langs :
          /\ layersState' = [layersState EXCEPT !.lang = lang]
          /\ startLoad(lang, layersLog)
    /\ UNCHANGED <<paramVars, promiseVars, searchVars, drawingVars, requestVars>>
    /\ UNCHANGED <<overlayVars, uiVars>>

\* a load ends
Ended(load) == loads \ {load}

\* a load goes on to its next await
Moved(load, pc, treeLang) ==
    (loads \ {load}) \cup {[load EXCEPT !.pc = pc, !.treeLang = treeLang]}

\* loadLayersConfigFromBackend answers or fails: the config is put in
\* layersConfigByLang and the topics are asked, or the error is logged and
\* the load is over
ConfigArrives ==
    /\ \E load \in loads, ok \in BOOLEAN :
          /\ load.pc = "config"
          /\ IF ok
             THEN /\ layersState' =
                        [layersState EXCEPT !.cache[load.lang] = TRUE]
                  /\ loads' = Moved(load, "topics", "none")
                  /\ layersLog' = [layersLog EXCEPT !.loaded[load.lang] = @ + 1]
             ELSE /\ loads' = Ended(load)
                  /\ layersLog' = [layersLog EXCEPT !.failed = TRUE]
                  /\ UNCHANGED layersState
    /\ UNCHANGED <<paramVars, promiseVars, searchVars, drawingVars, requestVars>>
    /\ UNCHANGED <<overlayVars, uiVars>>

\* loadTopicsFromBackend answers or fails: setLayerConfig and setTopics are
\* dispatched with the config and the topics of the load; the tree of the
\* current topic is asked for the language the store has now, or without
\* current topic the default one is set; on failure the error is logged
TopicsArrive ==
    /\ \E load \in loads, ok \in BOOLEAN :
          /\ load.pc = "topics"
          /\ IF ok
             THEN /\ layersState' = [layersState EXCEPT !.config = load.lang,
                                              !.topics = load.lang,
                                              !.current = TRUE]
                  /\ loads' = IF layersState.current
                              THEN Moved(load, "tree", layersState.lang)
                              ELSE Ended(load)
                  /\ UNCHANGED layersLog
             ELSE /\ loads' = Ended(load)
                  /\ layersLog' = [layersLog EXCEPT !.failed = TRUE]
                  /\ UNCHANGED layersState
    /\ UNCHANGED <<paramVars, promiseVars, searchVars, drawingVars, requestVars>>
    /\ UNCHANGED <<overlayVars, uiVars>>

\* loadTopicTreeForTopic answers or fails: setTopicTree is dispatched, or
\* the error is logged
TreeArrives ==
    /\ \E load \in loads, ok \in BOOLEAN :
          /\ load.pc = "tree"
          /\ loads' = Ended(load)
          /\ IF ok
             THEN /\ layersState' = [layersState EXCEPT !.tree = load.treeLang]
                  /\ UNCHANGED layersLog
             ELSE /\ layersLog' = [layersLog EXCEPT !.failed = TRUE]
                  /\ UNCHANGED layersState
    /\ UNCHANGED <<paramVars, promiseVars, searchVars, drawingVars, requestVars>>
    /\ UNCHANGED <<overlayVars, uiVars>>

NextLayers ==
    \/ SetLang
    \/ ConfigArrives
    \/ TopicsArrive
    \/ TreeArrives

\* loadLayersConfigOnLangChange(store): the subscriber is set and the first
\* load is started, for the language of the store
InitLayers ==
    /\ IdleSync
    /\ IdlePromise
    /\ IdleSearch
    /\ IdleDrawing
    /\ IdleRequests
    /\ IdleOverlay
    /\ IdleUi
    /\ layersState \in {[NoLayers EXCEPT !.lang = lang] : lang \in Langs}
    /\ loads = {[id |-> 1, lang |-> layersState.lang, pc |-> "config",
                 treeLang |-> "none"]}
    /\ layersLog = [NoLayersLog EXCEPT !.started = 1,
                                       !.calls[layersState.lang] = 1]

SpecLayers == InitLayers /\ [][NextLayers]_vars

\* C33: no load started after the layers config of its language was loaded
\* from the backend calls the backend for it again, whatever the language
\* changes; layersConfigByLang holds a config for a language if and only
\* if a load of it has succeeded, so a failed load stores nothing
C33_LoadedOnceThenCached ==
    /\ layersLog.late = 0
    /\ \A lang \in Langs :
          /\ layersState.cache[lang] <=> layersLog.loaded[lang] > 0
          /\ layersLog.loaded[lang] <= layersLog.calls[lang]

C33_Witness ==
    /\ layersLog.hits = 1
    /\ layersLog.loaded["de"] = 1
    /\ layersLog.calls["de"] = 1
    /\ layersLog.calls["fr"] = 1
    /\ ~layersState.cache["fr"]
    /\ layersLog.failed
    /\ layersState.lang = "de"
    /\ loads = {}

\* C37: when no load is pending and none has failed, the layers config and
\* the topics of the store are those of the language of the store
C37_ConfigOfTheCurrentLanguage ==
    (loads = {} /\ ~layersLog.failed)
        => /\ layersState.config = layersState.lang
           /\ layersState.topics = layersState.lang

====
